---- MODULE Spec2Model ----
(***************************************************************************)
(* OTP-9789, Monthly Sales Notification for Sales Rep: a NetSuite          *)
(* Map/Reduce script.  getInputData builds the transaction search, map     *)
(* turns one search result into one CSV line written under the sales rep's *)
(* id, reduce renders one CSV file per key and mails it, summarize logs.   *)
(*                                                                         *)
(* The repository holds three revisions of the script.  rev names the one  *)
(* deployed in a run:                                                      *)
(*   "v1"      _jj_mr_email_salesrep_salesinfo.js                          *)
(*   "copy2"   _jj_mr_email_salesrep_salesinfo copy 2.js                   *)
(*   "part000" src/unnamed/part_000                                        *)
(*                                                                         *)
(* A JavaScript string is a sequence of tokens; the tokens "," (comma),    *)
(* "\"" (double quote) and "\n" (line feed) are the characters the script  *)
(* and a CSV reader look at, every other token is a run of other           *)
(* characters.  The empty string and an absent (undefined) scalar column   *)
(* are both <<>>: the script reads scalars only through `x || default`.    *)
(***************************************************************************)
EXTENDS Integers, Sequences, FiniteSets, TLC

\* ------------------------------------------------------------------ bounds

\* Rows the row source yields in one run, at most.
MaxRows == 3

\* Platform calls of the reduce stage (file.create/save, search.lookupFields,
\* file.load, email.send) that fail or return nothing in one run, at most.
MaxFaults == 1

\* ----------------------------------------------------------------- strings

Comma == ","
Quote == "\""
Newline == "\n"

\* String.prototype.includes(c)
Includes(s, c) == \E i \in 1..Len(s) : s[i] = c

\* Array.prototype.join(sep)
RECURSIVE Join(_, _)
Join(lines, sep) ==
    IF Len(lines) = 0 THEN <<>>
    ELSE IF Len(lines) = 1 THEN lines[1]
    ELSE lines[1] \o <<sep>> \o Join(Tail(lines), sep)

\* What a reader of the file does with the text: cut it at every line feed.
RECURSIVE SplitLines(_)
SplitLines(s) ==
    IF \A i \in 1..Len(s) : s[i] # Newline THEN <<s>>
    ELSE LET i == CHOOSE j \in 1..Len(s) :
                      s[j] = Newline /\ \A h \in 1..(j - 1) : s[h] # Newline
         IN <<SubSeq(s, 1, i - 1)>> \o SplitLines(SubSeq(s, i + 1, Len(s)))

\* What a CSV reader does with one line: a double quote opens or closes a
\* quoted stretch, a comma outside a quoted stretch ends a field.
RECURSIVE CommasOutsideQuotes(_, _)
CommasOutsideQuotes(s, inQuotes) ==
    IF Len(s) = 0 THEN 0
    ELSE IF s[1] = Quote THEN CommasOutsideQuotes(Tail(s), ~inQuotes)
    ELSE IF s[1] = Comma /\ ~inQuotes THEN 1 + CommasOutsideQuotes(Tail(s), inQuotes)
    ELSE CommasOutsideQuotes(Tail(s), inQuotes)

FieldCount(line) == 1 + CommasOutsideQuotes(line, FALSE)

\* -------------------------------------------------------------------- rows

Revisions == {"v1", "copy2", "part000"}

\* A select column (entity, salesrep) of a search result: absent, or an
\* object with a value (the internal id, possibly "") and maybe a text.
NoRef == [present |-> FALSE, value |-> "", hasText |-> FALSE, text |-> <<>>]
Ref(v, t) == [present |-> TRUE, value |-> v, hasText |-> TRUE, text |-> t]
RefNoText(v) == [present |-> TRUE, value |-> v, hasText |-> FALSE, text |-> <<>>]

\* context.value of one map invocation.  parses: JSON.parse accepts it;
\* hasValues: the parsed object carries a values object.
Row(entity, email, tranid, amount, salesrep) ==
    [parses |-> TRUE, hasValues |-> TRUE, entity |-> entity, email |-> email,
     tranid |-> tranid, amount |-> amount, salesrep |-> salesrep]

Unparsable == [Row(NoRef, <<>>, <<>>, <<>>, NoRef) EXCEPT !.parses = FALSE, !.hasValues = FALSE]
NoValues == [Row(NoRef, <<>>, <<>>, <<>>, NoRef) EXCEPT !.hasValues = FALSE]

Rows ==
    { Row(Ref("7", <<"Acme">>), <<"a@x">>, <<"SO1">>, <<"10.00">>, Ref("12", <<"Ann">>)),
      Row(Ref("8", <<"Acme", Comma, " Inc.">>), <<>>, <<"SO2">>, <<>>, Ref("12", <<"Ann">>)),
      Row(NoRef, <<"b@x", Comma, "c@x">>, <<"SO", Comma, "3">>, <<"5.00">>, NoRef),
      Row(Ref("7", <<"Acme">>), <<"a@x">>, <<>>, <<"7.00">>, Ref("", <<>>)),
      Row(RefNoText("9"), <<"d@x">>, <<"SO4">>, <<"1", Comma, "000.00">>, Ref("34", <<"Bob">>)),
      Unparsable,
      NoValues }

Malformed(row) == ~row.parses \/ ~row.hasValues

\* --------------------------------------------------------------------- map

Unassigned == "Unassigned"

\* src v1:44, part_000:66, copy 2:93-96
customerNameOf(r, data) ==
    CASE r = "v1" ->
           \* data.entity?.text || 'Unknown'
           [threw |-> FALSE,
            val |-> IF data.entity.present /\ data.entity.hasText /\ data.entity.text # <<>>
                    THEN data.entity.text ELSE <<"Unknown">>]
      [] r = "part000" ->
           \* data.entity ? data.entity.text : 'Unknown'; an entity without a
           \* text leaves customerName undefined, and .includes throws on it
           IF ~data.entity.present THEN [threw |-> FALSE, val |-> <<"Unknown">>]
           ELSE IF ~data.entity.hasText THEN [threw |-> TRUE, val |-> <<>>]
           ELSE [threw |-> FALSE, val |-> data.entity.text]
      [] OTHER ->
           \* soFields is declared nowhere: reading it throws a ReferenceError
           [threw |-> TRUE, val |-> <<>>]

\* src v1:45, part_000:67
customerEmailOf(data) == IF data.email # <<>> THEN data.email ELSE <<"No Email">>

\* src v1:46, part_000:68
docNumberOf(r, data) ==
    IF data.tranid # <<>> THEN data.tranid
    ELSE IF r = "part000" THEN <<>> ELSE <<"Null">>

\* src v1:47, part_000:69
amountOf(data) == IF data.amount # <<>> THEN data.amount ELSE <<"0.00">>

\* src v1:48, part_000:70
salesRepIdOf(r, data) ==
    IF r = "part000"
    THEN \* data['salesrep.customerMain'] ? data['salesrep.customerMain'].value : 'Unassigned'
         IF data.salesrep.present THEN data.salesrep.value ELSE Unassigned
    ELSE \* data.salesrep?.value || 'Unassigned'
         IF data.salesrep.present /\ data.salesrep.value # "" THEN data.salesrep.value
         ELSE Unassigned

\* if (s.includes(',')) s = `"${s}"`
quoteIfComma(s) == IF Includes(s, Comma) THEN <<Quote>> \o s \o <<Quote>> ELSE s

\* `${customerName},${customerEmail},${docNumber},${amount}`
csvLineOf(customerName, customerEmail, docNumber, amount) ==
    quoteIfComma(customerName) \o <<Comma>> \o quoteIfComma(customerEmail)
        \o <<Comma>> \o docNumber \o <<Comma>> \o amount

\* The body of map's try block: what it throws or what it hands to
\* context.write.
mapBody(r, row) ==
    LET name == customerNameOf(r, row)
    IN IF ~row.parses \/ ~row.hasValues \/ name.threw
       THEN [threw |-> TRUE, key |-> "", line |-> <<>>]
       ELSE [threw |-> FALSE,
             key |-> salesRepIdOf(r, row),
             line |-> csvLineOf(name.val, customerEmailOf(row), docNumberOf(r, row), amountOf(row))]

\* map without its try/catch: what the body throws leaves the handler.
mapNoCatch(r, row) ==
    LET b == mapBody(r, row)
    IN [escaped |-> b.threw, logged |-> FALSE, wrote |-> ~b.threw, key |-> b.key, line |-> b.line]

\* map: try { body } catch (e) { log.error('Map error', e.message) }
map(r, row) ==
    LET b == mapBody(r, row)
    IN [escaped |-> FALSE, logged |-> b.threw, wrote |-> ~b.threw, key |-> b.key, line |-> b.line]

\* ------------------------------------------------------------------ reduce

\* The administrator's internal id: the literal -5 of the script (author of
\* every message, recipient of the unassigned report), as a string like the
\* keys it is compared with.
Admin == "-5"

\* Date.prototype.getMonth() values
Months == 0..11

\* The run dates explored: a day in January, where last month is December of
\* the year before, and a day in July.
RunMonths == {0, 6}

monthNames ==
    <<"January", "February", "March", "April", "May", "June", "July",
      "August", "September", "October", "November", "December">>

\* new Date(today.getFullYear(), today.getMonth() - 1).getMonth(): the Date
\* constructor carries month -1 into December of the year before.
lastMonthOf(today) == (today - 1) % 12

\* src v1:65-67, copy 2:133-136; part_000 names no month
monthName(r, today) == IF r = "part000" THEN "" ELSE monthNames[lastMonthOf(today) + 1]

\* The month the search of getInputData selects: 'thismonth' (v1:22) or
\* 'lastmonth' (copy 2:37, part_000:36), read on the run date.
queriedMonth(r, today) == IF r = "v1" THEN today ELSE (today - 1) % 12

\* src v1:69, copy 2:138, part_000:95
header(r) ==
    <<"Customer Name", Comma, "Customer Email", Comma,
      IF r = "v1" THEN "Document Number" ELSE "Sales Order Document Number",
      Comma, "Sales Amount">>

\* csvContent with the lines in reverse order.
csvContentReversed(r, allLines) ==
    header(r) \o <<Newline>>
        \o Join([i \in 1..Len(allLines) |-> allLines[Len(allLines) + 1 - i]], Newline)

\* csvContent that keeps only the first line of the group.
csvContentFirstLine(r, allLines) == header(r) \o <<Newline>> \o allLines[1]

\* header + '\n' + allLines.join('\n')
csvContent(r, allLines) == header(r) \o <<Newline>> \o Join(allLines, Newline)

\* src v1:72, copy 2:141, part_000:97
fileNameOf(r, key, today) ==
    IF r = "part000" THEN <<"Sales_Report_", key, ".csv">>
    ELSE <<"Sales_Report_", key, "_", monthName(r, today), ".csv">>

\* src v1:79-80, copy 2:149-150, part_000:93,131
recipientOf(key) == IF key = Unassigned THEN Admin ELSE key

\* src v1:81-83, copy 2:151, part_000:123
subjectOf(r, key, today) ==
    CASE r = "v1" ->
           IF key = Unassigned THEN <<"Unassigned Sales - ", monthName(r, today)>>
           ELSE <<"Your Sales Report - ", monthName(r, today)>>
      [] r = "copy2" ->
           IF key = Unassigned THEN <<"Unassigned Sales Rep">>
           ELSE <<"Your Sales Report - ", monthName(r, today)>>
      [] OTHER ->
           IF key = Unassigned THEN <<"Unassigned Sales Report">> ELSE <<"Your Sales Report">>

\* What a call of search.lookupFields(EMPLOYEE, id, ['entityid']) does.
LookupOutcomes == {"name", "empty", "throws"}

\* The outcomes of the platform calls one reduce invocation makes:
\* file.create/save, the two identity lookups, file.load and email.send.
ReduceIO ==
    [fileOk : BOOLEAN, adminLookup : LookupOutcomes, repLookup : LookupOutcomes,
     loadOk : BOOLEAN, sendOk : BOOLEAN]

\* The outcomes to tell apart for revision r and a key: a call that is not
\* made has one.  The lookups are made only in part_000, the lookup of the
\* representative only for a key other than 'Unassigned', file.load not in
\* v1; nothing is called after a call that throws out of the outer try
\* (file.create/save, the administrator lookup), and email.send is not
\* called when file.load throws.
ReduceIOFor(r, key) ==
    { io \in ReduceIO :
        LET lookups == r = "part000" /\ io.fileOk
            dispatch == io.fileOk /\ (r = "part000" => io.adminLookup # "throws")
        IN /\ ~lookups => io.adminLookup = "name"
           /\ ~(lookups /\ dispatch /\ key # Unassigned) => io.repLookup = "name"
           /\ ~(dispatch /\ r # "v1") => io.loadOk
           /\ ~(dispatch /\ io.loadOk) => io.sendOk }

\* The state of a key no reduce has been run for.
NoReport ==
    [status |-> "Accumulating", escaped |-> FALSE, rendered |-> FALSE,
     fileName |-> <<>>, csv |-> <<>>, month |-> "",
     adminLookup |-> "notcalled", repLookup |-> "notcalled",
     senderName |-> "", receiverName |-> "",
     sends |-> 0, sendResult |-> "notcalled",
     recipient |-> "", subject |-> <<>>, logged |-> ""]

\* part_000:104-108: the administrator's name, read outside the inner try.
senderNameOf(io) == IF io.adminLookup = "name" THEN "entityid(-5)" ELSE "NetSuite Admin"

\* part_000:110-121
receiverNameOf(key, io) ==
    IF key = Unassigned THEN "Admin"
    ELSE IF io.repLookup = "name" THEN "entityid(rep)" ELSE "Sales Representative"

\* sendAttempt that sends again when the first email.send raised.
sendAttemptRetry(r, io) ==
    IF r # "v1" /\ ~io.loadOk
    THEN [sends |-> 0, result |-> "notcalled", status |-> "Skipped", logged |-> "Email skipped"]
    ELSE IF io.sendOk
    THEN [sends |-> 1, result |-> "ok", status |-> "Delivered", logged |-> "Email sent"]
    ELSE [sends |-> 2, result |-> "raised", status |-> "Skipped", logged |-> "Email skipped"]

\* The inner try of reduce: one email.send (with file.load({id: fileId}) as
\* its attachment in copy 2 and part_000), caught as a skip.
sendAttempt(r, io) ==
    IF r # "v1" /\ ~io.loadOk
    THEN [sends |-> 0, result |-> "notcalled", status |-> "Skipped", logged |-> "Email skipped"]
    ELSE IF io.sendOk
    THEN [sends |-> 1, result |-> "ok", status |-> "Delivered", logged |-> "Email sent"]
    ELSE [sends |-> 1, result |-> "raised", status |-> "Skipped", logged |-> "Email skipped"]

\* The body of reduce's outer try, up to what it throws.
reduceBody(r, key, allLines, today, io) ==
    LET rendered == [NoReport EXCEPT !.rendered = TRUE,
                                     !.fileName = fileNameOf(r, key, today),
                                     !.csv = csvContent(r, allLines),
                                     !.month = monthName(r, today)]
        looked == IF r # "part000" THEN rendered
                  ELSE [rendered EXCEPT !.adminLookup = io.adminLookup,
                                        !.senderName = senderNameOf(io)]
        named == IF r # "part000" \/ key = Unassigned
                 THEN [looked EXCEPT !.receiverName = IF r = "part000" THEN "Admin" ELSE ""]
                 ELSE [looked EXCEPT !.repLookup = io.repLookup,
                                     !.receiverName = receiverNameOf(key, io)]
        sent == sendAttempt(r, io)
    IN IF ~io.fileOk
       THEN [threw |-> TRUE, report |-> NoReport]
       ELSE IF r = "part000" /\ io.adminLookup = "throws"
       THEN [threw |-> TRUE, report |-> [rendered EXCEPT !.adminLookup = "throws"]]
       ELSE [threw |-> FALSE,
             report |-> [named EXCEPT !.sends = sent.sends,
                                      !.sendResult = sent.result,
                                      !.status = sent.status,
                                      !.logged = sent.logged,
                                      !.recipient = recipientOf(key),
                                      !.subject = subjectOf(r, key, today)]]

\* reduce without its outer try/catch: what the body throws leaves the handler.
reduceNoCatch(r, key, allLines, today, io) ==
    LET b == reduceBody(r, key, allLines, today, io)
    IN IF b.threw
       THEN [b.report EXCEPT !.status = "Failed", !.escaped = TRUE]
       ELSE b.report

\* reduce: try { body } catch (e) { log.error('Reduce error', ...) }
reduce(r, key, allLines, today, io) ==
    LET b == reduceBody(r, key, allLines, today, io)
    IN IF b.threw
       THEN [b.report EXCEPT !.status = "Failed", !.logged = "Reduce error"]
       ELSE b.report

\* ------------------------------------------------------------ state machine

VARIABLES
    rev,        \* the revision of the script the deployment runs
    stage,      \* the stage of the Map/Reduce run
    today,      \* the month of the run date, as getMonth() gives it
    period,     \* the months the search of getInputData selects ({} before)
    arrived,    \* the rows handed to map so far, in arrival order
    groups,     \* key -> the values written under it (context.write), each
                \* with the position in arrived of the row it came from
    reports,    \* key -> what reduce did for it
    faults,     \* platform calls of the reduce stage that failed so far
    log         \* the entries written with log.error and log.audit

vars == <<rev, stage, today, period, arrived, groups, reports, faults, log>>

\* The keys a row of Rows can be written under.
Keys == {"12", "34", Unassigned, ""}

LogEntry(title, key, row) == [title |-> title, key |-> key, row |-> row]

Init ==
    /\ rev \in Revisions
    /\ stage = "getInputData"
    /\ today \in RunMonths
    /\ faults = 0
    /\ period = {}
    /\ arrived = <<>>
    /\ groups = [k \in Keys |-> <<>>]
    /\ reports = [k \in Keys |-> NoReport]
    /\ log = {}

\* context.write({key, value}): the platform appends the value to the values
\* of its key, which reduce receives as context.values.  row is the position
\* in arrived of the row map was handed.
write(g, key, value, row) == [g EXCEPT ![key] = Append(@, [line |-> value, row |-> row])]

\* getInputData: search.create either returns the search or throws; the
\* catch logs and rethrows, which ends the run.
GetInputData ==
    /\ stage = "getInputData"
    /\ \E created \in BOOLEAN :
          IF created
          THEN /\ stage' = "map"
               /\ period' = {queriedMonth(rev, today)}
               /\ log' = log \cup {LogEntry("Script started", "", 0)}
          ELSE /\ stage' = "aborted"
               /\ period' = period
               /\ log' = log \cup {LogEntry("Script started", "", 0),
                                   LogEntry("getInputData error", "", 0)}
    /\ UNCHANGED <<rev, today, arrived, groups, reports, faults>>

\* The runner hands the next row of the search to map.
Map ==
    /\ stage = "map"
    /\ Len(arrived) < MaxRows
    /\ \E row \in Rows :
          LET m == map(rev, row)
              idx == Len(arrived) + 1
          IN /\ arrived' = Append(arrived, row)
             /\ groups' = IF m.wrote THEN write(groups, m.key, m.line, idx) ELSE groups
             /\ log' = IF m.logged THEN log \cup {LogEntry("Map error", "", idx)} ELSE log
             /\ stage' = IF m.escaped THEN "aborted" ELSE stage
    /\ UNCHANGED <<rev, today, period, reports, faults>>

\* The search is exhausted: the map stage ends and the reduce stage begins.
EndMap ==
    /\ stage = "map"
    /\ stage' = "reduce"
    /\ UNCHANGED <<rev, today, period, arrived, groups, reports, faults, log>>

allLinesOf(k) == [i \in 1..Len(groups[k]) |-> groups[k][i].line]

Pending(k) == groups[k] # <<>> /\ reports[k].status = "Accumulating"

\* The platform calls that failed, or returned nothing, in one reduce.
FaultsIn(rep) ==
    (IF rep.status = "Failed" /\ ~rep.rendered THEN 1 ELSE 0)
        + (IF rep.adminLookup \in {"empty", "throws"} THEN 1 ELSE 0)
        + (IF rep.repLookup \in {"empty", "throws"} THEN 1 ELSE 0)
        + (IF rep.status = "Skipped" THEN 1 ELSE 0)

\* The runner calls reduce once for a key that has values, in any order.
Reduce ==
    /\ stage = "reduce"
    /\ \E k \in Keys :
          /\ Pending(k)
          /\ \E io \in ReduceIOFor(rev, k) :
               LET rep == reduce(rev, k, allLinesOf(k), today, io)
               IN /\ faults + FaultsIn(rep) <= MaxFaults
                  /\ faults' = faults + FaultsIn(rep)
                  /\ reports' = [reports EXCEPT ![k] = rep]
                  /\ log' = log \cup {LogEntry(rep.logged, k, 0)}
                  /\ stage' = IF rep.escaped THEN "aborted" ELSE stage
    /\ UNCHANGED <<rev, today, period, arrived, groups>>

\* summarize: runs once every key has been reduced.
Summarize ==
    /\ stage = "reduce"
    /\ \A k \in Keys : ~Pending(k)
    /\ stage' = "done"
    /\ log' = log \cup {LogEntry("Script complete", "", 0)}
    /\ UNCHANGED <<rev, today, period, arrived, groups, reports, faults>>

Next == GetInputData \/ Map \/ EndMap \/ Reduce \/ Summarize

Spec == Init /\ [][Next]_vars

\* ------------------------------------------------------------------ claims

HasGroup(k) == groups[k] # <<>>

Reduced(k) == reports[k].status # "Accumulating"

\* The lines map writes under key k when it is handed rows, one by one.
RECURSIVE LinesWritten(_, _, _)
LinesWritten(r, k, rows) ==
    IF rows = <<>> THEN <<>>
    ELSE LET m == map(r, rows[1])
         IN (IF m.wrote /\ m.key = k THEN <<m.line>> ELSE <<>>)
                \o LinesWritten(r, k, Tail(rows))

WellFormedOnly(rows) == SelectSeq(rows, LAMBDA row : ~Malformed(row))

\* The values written for the row that arrived i-th, as <<key, position>>.
WrittenFor(i) ==
    {kj \in Keys \X (1..MaxRows) :
        kj[2] <= Len(groups[kj[1]]) /\ groups[kj[1]][kj[2]].row = i}

MapErrorLogged(i) == LogEntry("Map error", "", i) \in log

\* The lines of a rendered file after its header.
DataLines(k) == Tail(SplitLines(reports[k].csv))

Occurrences(seq, x) == Cardinality({i \in 1..Len(seq) : seq[i] = x})

\* C1: no exception escapes reduce, so the run is never ended by a group
\* (only a failing getInputData ends it, before any row is read), and when
\* the run is done every group map produced has had its reduce attempt,
\* however the other groups ended.
C1_FaultContainment ==
    /\ \A k \in Keys : ~reports[k].escaped
    /\ stage = "aborted" => arrived = <<>> /\ period = {}
    /\ stage \in {"done", "aborted"} => \A k \in Keys : HasGroup(k) => Reduced(k)

\* A finished run in which one group failed in reduce and email.send was
\* called for another.
C1_Witness ==
    /\ stage = "done"
    /\ \E g1, g2 \in Keys :
          /\ g1 # g2
          /\ reports[g1].status = "Failed"
          /\ reports[g2].sends = 1

\* C2: a malformed row is logged and written nowhere, no exception escapes
\* map, and the groups hold exactly the lines map writes for the stream
\* without its malformed rows.
C2_MalformedRowContained ==
    /\ arrived # <<>> => stage # "aborted"
    /\ \A i \in 1..Len(arrived) :
          Malformed(arrived[i]) => MapErrorLogged(i) /\ WrittenFor(i) = {}
    /\ \A k \in Keys : allLinesOf(k) = LinesWritten(rev, k, WellFormedOnly(arrived))

\* A malformed row between two rows that were written.
C2_Witness ==
    /\ Len(arrived) = 3
    /\ Malformed(arrived[2])
    /\ WrittenFor(1) # {} /\ WrittenFor(3) # {}
    /\ stage = "done"

\* C3: a value written for a row with no representative, or with an empty
\* representative id, is written under 'Unassigned'; email.send for
\* 'Unassigned' goes to the administrator (-5) and for any other key to
\* that key.
C3_UnassignedToAdmin ==
    /\ \A i \in 1..Len(arrived) :
          (~arrived[i].salesrep.present \/ arrived[i].salesrep.value = "")
              => \A kj \in WrittenFor(i) : kj[1] = Unassigned
    /\ \A k \in Keys :
          reports[k].sends > 0
              => reports[k].recipient = (IF k = Unassigned THEN Admin ELSE k)

\* C4: every row that is not malformed is written exactly once, under one
\* key, and only a malformed row is skipped with a logged failure.
C4_OneLineItemPerRow ==
    \A i \in 1..Len(arrived) :
        ~Malformed(arrived[i])
            => Cardinality(WrittenFor(i)) = 1 /\ ~MapErrorLogged(i)

\* C5: once reduce has run for any key no further row is mapped, and the
\* body of the file rendered for key k holds one line for each line map
\* wrote under k, and no other.
C5_AccumulateThenFinalize ==
    /\ [](\A k \in Keys :
            /\ Reduced(k) => stage \in {"reduce", "done"}
            /\ reports[k].rendered =>
                  /\ Len(DataLines(k)) = Len(LinesWritten(rev, k, arrived))
                  /\ \A i \in 1..Len(DataLines(k)) :
                        Occurrences(DataLines(k), DataLines(k)[i])
                            = Occurrences(LinesWritten(rev, k, arrived), DataLines(k)[i]))
    /\ [][(\E k \in Keys : Reduced(k)) => arrived' = arrived /\ groups' = groups]_vars

\* A file rendered from two lines while another key holds a line too.
C5_Witness ==
    \E k, k2 \in Keys :
        /\ k # k2
        /\ reports[k].rendered
        /\ Len(groups[k]) = 2
        /\ HasGroup(k2)

\* The field of a line item as the claim renders it: wrapped in double
\* quotes, once, when it contains a comma.
WrappedOnce(field) == IF Includes(field, Comma) THEN <<Quote>> \o field \o <<Quote>> ELSE field

\* C6: every written line is its four fields (customer name, customer
\* email, document number, amount), each wrapped in double quotes once if
\* it contains a comma, joined by commas; it reads back as 4 fields.
C6_FieldsQuotedOnce ==
    \A k \in Keys : \A j \in 1..Len(groups[k]) :
        LET row == arrived[groups[k][j].row]
            line == groups[k][j].line
        IN /\ line = Join(<<WrappedOnce(customerNameOf(rev, row).val),
                            WrappedOnce(customerEmailOf(row)),
                            WrappedOnce(docNumberOf(rev, row)),
                            WrappedOnce(amountOf(row))>>, Comma)
           /\ FieldCount(line) = 4

\* C7: email.send is called at most once for a group; a call that raises
\* ends the group as Skipped with 'Email skipped' logged, a group that
\* failed was never sent, and what reduce did for a group never changes
\* afterwards (no retry, no second rendering).
C7_ForwardOnly ==
    /\ [](\A k \in Keys :
            /\ reports[k].sends <= 1
            /\ reports[k].sendResult = "raised"
                  => /\ reports[k].status = "Skipped"
                     /\ LogEntry("Email skipped", k, 0) \in log
            /\ reports[k].status = "Delivered" => reports[k].sendResult = "ok"
            /\ reports[k].status = "Failed" => reports[k].sends = 0)
    /\ [][\A k \in Keys :
            Reduced(k) => reports'[k] = reports[k] /\ groups'[k] = groups[k]]_vars

\* A finished run with a group whose email.send raised, after which another
\* group was handled.
C7_Witness ==
    /\ stage = "done"
    /\ \E k, k2 \in Keys :
          /\ k # k2
          /\ reports[k].sendResult = "raised"
          /\ reports[k].status = "Skipped"
          /\ Reduced(k2)

\* C8: when a lookup of the administrator or of the representative fails or
\* returns nothing, reduce still calls email.send for the group (unless
\* loading the attachment is what failed).
C8_LookupFailureStillSends ==
    \A k \in Keys :
        (reports[k].adminLookup \in {"empty", "throws"}
            \/ reports[k].repLookup \in {"empty", "throws"})
            => reports[k].sends = 1 \/ reports[k].status = "Skipped"

\* C9: the rendered file begins with the header, and its data lines are the
\* lines of the rows written under the key, in the order the rows arrived.
C9_ArrivalOrder ==
    \A k \in Keys :
        reports[k].rendered
            => /\ SplitLines(reports[k].csv)[1] = header(rev)
               /\ DataLines(k) = LinesWritten(rev, k, arrived)

\* A file rendered for a key whose two rows, with different lines, arrived
\* first and third, a row of another key between them.
C9_Witness ==
    \E k, k2 \in Keys :
        /\ k # k2
        /\ reports[k].rendered
        /\ Len(groups[k]) = 2
        /\ groups[k][1].row = 1 /\ groups[k][2].row = 3
        /\ groups[k][1].line # groups[k][2].line
        /\ HasGroup(k2) /\ groups[k2][1].row = 2

\* C10: the month a report is named after is the month the search of
\* getInputData selected.
C10_LabelIsQueriedMonth ==
    \A k \in Keys :
        (reports[k].rendered /\ reports[k].month # "")
            => \E m \in period : monthNames[m + 1] = reports[k].month

====
